---------------------------- MODULE Spec2Model ----------------------------
(***************************************************************************)
(* A model of examples/python/example.py: the completion client call       *)
(* ask_ai (lines 15-63), the seven examples and main (lines 66-217).       *)
(*                                                                         *)
(* Python values are tagged tuples: <<"None">>, <<"str", s>>,              *)
(* <<"float", t>> (t in tenths: 1.2 is 12), <<"int", n>>, <<"dict", f>>,   *)
(* <<"list">>.  JSON values on the wire are <<"null">>, <<"string", s>>,   *)
(* <<"number", t>> (t in tenths) and JSON texts are <<"object", f>>,       *)
(* <<"array">> or <<"invalid">> (a body that is not JSON).                 *)
(*                                                                         *)
(* ask_ai is modelled statement by statement (pc), main call site by call  *)
(* site (mainPc).  The server, the network and the version of the requests *)
(* library are the environment: their outcomes are chosen by \E.           *)
(***************************************************************************)
EXTENDS Integers, Sequences, FiniteSets, TLC

VARIABLES
    mainPc,        \* position of main / of the caller of ask_ai
    stdout,        \* the lines printed so far (answers, rules, marks elided)
    answer1,       \* example5_deterministic's local answer1
    answer2,       \* example5_deterministic's local answer2
    pc,            \* position inside ask_ai
    args,          \* ask_ai's arguments
    payload,       \* ask_ai's local payload
    response,      \* ask_ai's local response (requests.Response)
    data,          \* ask_ai's local data
    exc,           \* the RequestException caught by ask_ai's handler
    result,        \* how the last ask_ai call ended: a return or a raise
    sent,          \* every HTTP request put on the wire, in order
    calls,         \* number of ask_ai invocations started
    deterministic, \* the server's reply is a function of the request body
    lastExchange   \* the server's last request body and its reply

vars == <<mainPc, stdout, answer1, answer2, pc, args, payload, response, data,
          exc, result, sent, calls, deterministic, lastExchange>>

(***************************************************************************)
(* Bounds and program constants                                            *)
(***************************************************************************)
\* The caller of ask_ai tries temperatures 0.0 .. MaxTemperature tenths and
\* token limits 0 .. MaxTokens.
MaxTemperature == 1

MaxTokens == 1

SERVER_URL == "http://localhost:8080/completion"

WRONG_URL == "http://localhost:9999/completion"

TIMEOUT == 30

EXAMPLE7_TIMEOUT == 1

(***************************************************************************)
(* Python and JSON values                                                  *)
(***************************************************************************)
PyNone == <<"None">>

PyStr(s) == <<"str", s>>

PyFloat(t) == <<"float", t>>

PyInt(n) == <<"int", n>>

PyDict(f) == <<"dict", f>>

PyList == <<"list">>

\* A test for presence in place of truth: `is not None`.
IsNotNone(v) == v[1] # "None"

\* bool(v): None, the empty string and zero are falsy.
Truthy(v) ==
    CASE v[1] = "None" -> FALSE
      [] v[1] = "str" -> v[2] # ""
      [] v[1] \in {"float", "int"} -> v[2] # 0

\* str(v) of a value used as an exception argument: a text is itself.
PyToStr(v) ==
    CASE v[1] = "None" -> "None"
      [] v[1] = "str" -> v[2]

\* json.dumps of one value, as requests does for json=payload.
ToJson(v) ==
    CASE v[1] = "None" -> <<"null">>
      [] v[1] = "str" -> <<"string", v[2]>>
      [] v[1] = "float" -> <<"number", v[2]>>
      [] v[1] = "int" -> <<"number", 10 * v[2]>>

\* json.loads of one value (the replies of the model hold texts and nulls).
FromJson(j) ==
    CASE j[1] = "null" -> PyNone
      [] j[1] = "string" -> PyStr(j[2])

\* The JSON object requests sends for a dict.
JsonDumps(d) == <<"object", [k \in DOMAIN d |-> ToJson(d[k])]>>

(***************************************************************************)
(* ask_ai, lines 36-44: the payload                                        *)
(***************************************************************************)
\* The dict literal of lines 36-41.
PayloadLiteral(a) ==
    [prompt |-> a.prompt, systemPrompt |-> a.system_prompt,
     temperature |-> a.temperature, maxTokens |-> a.max_tokens]

\* A wrong filter: `if v` in place of `if v is not None`.
RemoveFalsy(d) == [k \in {x \in DOMAIN d : Truthy(d[x])} |-> d[k]]

\* Line 44: {k: v for k, v in payload.items() if v is not None}.
RemoveNone(d) == [k \in {x \in DOMAIN d : d[x] # PyNone} |-> d[k]]

\* A payload that carries state from call to call: a request counter.
BuildPayloadCounting(a) ==
    RemoveNone(PayloadLiteral(a)) @@ [requestId |-> PyInt(calls)]

BuildPayload(a) == RemoveNone(PayloadLiteral(a))

\* The keyword arguments of requests.post, lines 47-52.
Request(p) ==
    [url |-> SERVER_URL, contentType |-> "application/json",
     json |-> JsonDumps(p), timeout |-> TIMEOUT]

(***************************************************************************)
(* Exceptions                                                              *)
(***************************************************************************)
Exc(type, msg) == [type |-> type, msg |-> msg]

NoExc == Exc("none", "")

\* The subclasses of requests.exceptions.RequestException that the calls
\* of this script can raise.  requests.JSONDecodeError is what
\* Response.json() raises since requests 2.27; before, it raised the json
\* module's own JSONDecodeError, a ValueError.
RequestExceptions ==
    {"ConnectionError", "ConnectTimeout", "ReadTimeout", "HTTPError",
     "requests.JSONDecodeError"}

\* A handler that names only the connection failure.
IsConnectionErrorOnly(type) == type = "ConnectionError"

\* A handler that catches everything: `except Exception`.
IsAnyException(type) == TRUE

\* Line 62: except requests.exceptions.RequestException.
IsRequestException(type) == type \in RequestExceptions

\* Line 211: except Exception.  Every exception of the model is one.
CaughtByMain(type) ==
    type \in RequestExceptions \cup
        {"Exception", "json.JSONDecodeError", "KeyError", "AttributeError"}

WrapPrefix == "Failed to connect to AI server: "

\* Line 63: Exception(f"Failed to connect to AI server: {e}").
Wrapped(e) == Exc("Exception", WrapPrefix \o e.msg)

Returned(v) == [kind |-> "return", value |-> v, exc |-> NoExc]

Raised(e) == [kind |-> "raise", value |-> PyNone, exc |-> e]

NoResult == [kind |-> "none", value |-> PyNone, exc |-> NoExc]

(***************************************************************************)
(* The environment: what the network and the server can answer             *)
(***************************************************************************)
TransportErrors ==
    {Exc("ConnectionError", "Connection refused"),
     Exc("ConnectTimeout", "Connection to localhost timed out"),
     Exc("ReadTimeout", "Read timed out")}

Statuses == {200, 201, 300, 404, 500}

ResponseFields == {<<"null">>, <<"string", "X">>, <<"string", "Y">>}

ErrorFields == {<<"null">>, <<"string", "">>, <<"string", "bad prompt">>}

FieldValues(k) == IF k = "error" THEN ErrorFields ELSE ResponseFields

\* The JSON objects with the fields K.
ObjectsWith(K) ==
    {<<"object", f>> : f \in
        {g \in [K -> ResponseFields \cup ErrorFields] :
            \A k \in K : g[k] \in FieldValues(k)}}

\* The response bodies: JSON objects with any of the fields response and
\* error, a JSON array, and a body that is not JSON.
Bodies ==
    UNION {ObjectsWith(K) : K \in SUBSET {"response", "error"}}
        \cup {<<"array">>, <<"invalid">>}

Replies == [status : Statuses, body : Bodies]

NoResponse == [status |-> 0, body |-> <<"invalid">>]

NoExchange == [json |-> <<"invalid">>, reply |-> NoResponse]

\* The replies the server may give to a request body: any, unless it is
\* deterministic and has just answered the same body.  Only the last
\* exchange is remembered: a server whose reply is a function of the body
\* is one of the servers this allows.
ServerReplies(json) ==
    IF deterministic /\ lastExchange.json = json
    THEN {lastExchange.reply}
    ELSE Replies

(***************************************************************************)
(* The requests library                                                    *)
(***************************************************************************)
\* A status check that rejects only server errors.
IsServerErrorOnly(status) == 500 <= status /\ status < 600

\* Response.raise_for_status raises HTTPError for 4xx and 5xx, line 53.
IsHttpError(status) == 400 <= status /\ status < 600

\* The reason phrase that goes with a status.
Reason(status) ==
    CASE status = 404 -> "Not Found"
      [] status = 500 -> "Internal Server Error"
      [] OTHER -> "None"

\* The HTTPError of raise_for_status and its text.
HttpError(status) ==
    Exc("HTTPError",
        ToString(status)
          \o (IF status < 500 THEN " Client Error: " ELSE " Server Error: ")
          \o Reason(status) \o " for url: " \o SERVER_URL)

\* Response.json(), line 55: the parsed value, for a body that is JSON.
ResponseJson(body) ==
    CASE body[1] = "object" ->
           PyDict([k \in DOMAIN body[2] |-> FromJson(body[2][k])])
      [] body[1] = "array" -> PyList

\* What Response.json() raises for a body that is not JSON: which class
\* depends on the version of requests installed.
JsonErrors ==
    {Exc("requests.JSONDecodeError", "Expecting value: line 1 column 1 (char 0)"),
     Exc("json.JSONDecodeError", "Expecting value: line 1 column 1 (char 0)")}

\* dict.get(key): None for a missing key.
DictGet(d, k) == IF k \in DOMAIN d[2] THEN d[2][k] ELSE PyNone

\* An application error that drops the server's message.
AppErrorGeneric(d) == Exc("Exception", "API returned an error")

\* Line 58: Exception(data['error']).
AppError(d) == Exc("Exception", PyToStr(d[2]["error"]))

(***************************************************************************)
(* Initial state                                                           *)
(***************************************************************************)
NoArgs ==
    [prompt |-> PyNone, system_prompt |-> PyNone, temperature |-> PyNone,
     max_tokens |-> PyNone]

InitFrame ==
    /\ pc = "idle"
    /\ args = NoArgs
    /\ payload = <<>>
    /\ response = NoResponse
    /\ data = PyNone
    /\ exc = NoExc
    /\ result = NoResult
    /\ sent = <<>>
    /\ calls = 0
    /\ deterministic \in BOOLEAN
    /\ lastExchange = NoExchange
    /\ stdout = <<>>
    /\ answer1 = PyNone
    /\ answer2 = PyNone

frame == <<args, payload, response, data, exc, result>>

caller == <<mainPc, stdout, answer1, answer2>>

server == <<deterministic, lastExchange>>

(***************************************************************************)
(* ask_ai, statement by statement                                          *)
(***************************************************************************)
\* Entry: the arguments are bound and the locals are fresh.
Enter(a) ==
    /\ pc = "idle"
    /\ pc' = "build"
    /\ args' = a
    /\ payload' = <<>>
    /\ response' = NoResponse
    /\ data' = PyNone
    /\ exc' = NoExc
    /\ result' = NoResult
    /\ calls' = calls + 1

\* Lines 36-44.
Build ==
    /\ pc = "build"
    /\ payload' = BuildPayload(args)
    /\ pc' = "post"
    /\ UNCHANGED <<args, response, data, exc, result, sent, calls, caller, server>>

\* Where a statement of the try block that raises e goes: to the handler of
\* line 62 if e is a RequestException, else out of ask_ai.
RaiseInTry(e) ==
    IF IsRequestException(e.type)
    THEN /\ exc' = e
         /\ pc' = "except"
         /\ result' = result
    ELSE /\ exc' = NoExc
         /\ pc' = "done"
         /\ result' = Raised(e)

\* Lines 47-52: requests.post.  The request goes on the wire once; then
\* either the transport fails or the server's reply arrives.
Post ==
    /\ pc = "post"
    /\ sent' = Append(sent, Request(payload))
    /\ \/ /\ \E e \in TransportErrors : RaiseInTry(e)
          /\ UNCHANGED <<response, lastExchange>>
       \/ /\ \E r \in ServerReplies(JsonDumps(payload)) :
                /\ response' = r
                /\ lastExchange' = [json |-> JsonDumps(payload), reply |-> r]
          /\ pc' = "raise_for_status"
          /\ UNCHANGED <<exc, result>>
    /\ UNCHANGED <<args, payload, data, calls, caller, deterministic>>

\* Line 53: response.raise_for_status().
RaiseForStatus ==
    /\ pc = "raise_for_status"
    /\ IF IsHttpError(response.status)
       THEN RaiseInTry(HttpError(response.status))
       ELSE /\ pc' = "json"
            /\ UNCHANGED <<exc, result>>
    /\ UNCHANGED <<args, payload, response, data, sent, calls, caller, server>>

\* Line 55: data = response.json().
Json ==
    /\ pc = "json"
    /\ IF response.body[1] = "invalid"
       THEN /\ \E e \in JsonErrors : RaiseInTry(e)
            /\ data' = data
       ELSE /\ data' = ResponseJson(response.body)
            /\ pc' = "check_error"
            /\ UNCHANGED <<exc, result>>
    /\ UNCHANGED <<args, payload, response, sent, calls, caller, server>>

\* Lines 57-58: if data.get('error'): raise Exception(data['error']).
\* A list has no get: AttributeError.
CheckError ==
    /\ pc = "check_error"
    /\ IF data[1] # "dict"
       THEN RaiseInTry(Exc("AttributeError", "'list' object has no attribute 'get'"))
       ELSE IF Truthy(DictGet(data, "error"))
            THEN RaiseInTry(AppError(data))
            ELSE /\ pc' = "return"
                 /\ UNCHANGED <<exc, result>>
    /\ UNCHANGED <<args, payload, response, data, sent, calls, caller, server>>

\* Line 60: return data['response'].  A missing key: KeyError.
Return ==
    /\ pc = "return"
    /\ IF "response" \in DOMAIN data[2]
       THEN /\ result' = Returned(data[2]["response"])
            /\ pc' = "done"
            /\ exc' = exc
       ELSE RaiseInTry(Exc("KeyError", "'response'"))
    /\ UNCHANGED <<args, payload, response, data, sent, calls, caller, server>>

\* Where the handler of lines 62-63 leaves ask_ai after a retry is added.
RetryPc == "post"

\* The handler of lines 62-63 ends the call.
HandlerPc == "done"

\* Lines 62-63: raise Exception(f"Failed to connect to AI server: {e}").
Except ==
    /\ pc = "except"
    /\ result' = Raised(Wrapped(exc))
    /\ exc' = exc    \* it stays the __context__ of the new exception
    /\ pc' = HandlerPc
    /\ UNCHANGED <<args, payload, response, data, sent, calls, caller, server>>

AskAi == Build \/ Post \/ RaiseForStatus \/ Json \/ CheckError \/ Return \/ Except

(***************************************************************************)
(* Specification Spec: one call of ask_ai with any arguments               *)
(***************************************************************************)
Prompts == {PyStr(""), PyStr("Hello")}

SystemPrompts == {PyNone, PyStr(""), PyStr("Be brief")}

Temperatures == {PyNone} \cup {PyFloat(t) : t \in 0..MaxTemperature}

TokenLimits == {PyNone} \cup {PyInt(n) : n \in 0..MaxTokens}

ArgsSet ==
    [prompt : Prompts, system_prompt : SystemPrompts,
     temperature : Temperatures, max_tokens : TokenLimits]

Init ==
    /\ mainPc = "caller"
    /\ InitFrame

\* Some caller calls ask_ai(prompt, system_prompt, temperature, max_tokens).
Call ==
    /\ mainPc = "caller"
    /\ \E a \in ArgsSet : Enter(a)
    /\ mainPc' = "called"
    /\ UNCHANGED <<stdout, answer1, answer2, sent, server>>

Next == Call \/ AskAi

Spec == Init /\ [][Next]_vars

(***************************************************************************)
(* Specification SpecMain: the script, lines 66-217                        *)
(***************************************************************************)
\* The ask_ai call sites of examples 1 to 6, in the order main reaches them.
Sites == <<"ex1", "ex2", "ex3", "ex4", "ex5a", "ex5b", "ex6a", "ex6b">>

SiteSet == {Sites[i] : i \in 1..Len(Sites)}

SiteIndex(site) == CHOOSE i \in 1..Len(Sites) : Sites[i] = site

\* The arguments of each call site: lines 72, 85-88, 101-105, 118-121,
\* 139, 140, 154-157, 159-162.
SiteArgs(site) ==
    CASE site = "ex1" ->
           [NoArgs EXCEPT !.prompt = PyStr("What is the capital of France?")]
      [] site = "ex2" ->
           [NoArgs EXCEPT
              !.prompt = PyStr("Write a Python function to calculate fibonacci numbers"),
              !.system_prompt = PyStr("You are an expert Python developer. Write clean, idiomatic Python.")]
      [] site = "ex3" ->
           [NoArgs EXCEPT
              !.prompt = PyStr("Write an engaging introduction for a blog post about local AI development"),
              !.system_prompt = PyStr("You are a technical blogger. Be engaging and informative."),
              !.temperature = PyFloat(12)]
      [] site = "ex4" ->
           [NoArgs EXCEPT
              !.prompt = PyStr("Extract the key points from this text as a bullet list: 'Python is a high-level programming language. It emphasizes code readability. It supports multiple programming paradigms.'"),
              !.system_prompt = PyStr("Extract information as a concise bullet list.")]
      [] site \in {"ex5a", "ex5b"} ->
           [NoArgs EXCEPT
              !.prompt = PyStr("List the first 3 programming paradigms"),
              !.temperature = PyFloat(0)]
      [] site = "ex6a" ->
           [NoArgs EXCEPT
              !.prompt = PyStr("Explain what an API is"),
              !.max_tokens = PyInt(50)]
      [] site = "ex6b" ->
           [NoArgs EXCEPT
              !.prompt = PyStr("Explain what an API is"),
              !.max_tokens = PyInt(200)]

\* What an example prints before the call at a site.
Header(site) ==
    CASE site = "ex1" -> <<"Example 1: Simple Question">>
      [] site = "ex2" -> <<"Example 2: Code Generation">>
      [] site = "ex3" -> <<"Example 3: Creative Writing">>
      [] site = "ex4" -> <<"Example 4: Structured Data Extraction">>
      [] site = "ex5a" -> <<"Example 5: Deterministic Responses",
                            "Asking the same question twice with temperature=0.0...">>
      [] site = "ex6a" -> <<"Example 6: Token Limits">>
      [] OTHER -> <<>>

\* What an example prints after the call at a site has returned v (the
\* answers themselves are elided), lines 74-76, 90-92, 107-109, 123-125,
\* 142-145, 164-169.
Footer(site, v) ==
    CASE site = "ex1" -> <<"Q: What is the capital of France?", "A: ...">>
      [] site = "ex2" -> <<"Q: Write a fibonacci function", "A: ...">>
      [] site = "ex3" -> <<"Q: Write a blog introduction", "A: ...">>
      [] site = "ex4" -> <<"Q: Extract key points as bullets", "A: ...">>
      [] site = "ex5b" -> <<"First: ...", "Second: ...",
                            IF answer1 = v THEN "Identical: YES"
                                           ELSE "Identical: NO">>
      [] site = "ex6b" -> <<"Short response (max 50 tokens):",
                            "Long response (max 200 tokens):">>
      [] OTHER -> <<>>

\* The statement of main after the call site: the next site, then example 7.
NextSite(site) ==
    IF SiteIndex(site) < Len(Sites) THEN Sites[SiteIndex(site) + 1] ELSE "ex7"

\* A caller that swallows the failure and goes on with the next example.
AfterRaiseContinue(site, type) == NextSite(site)

\* An exception leaving ask_ai at a site leaves the example too (no example
\* has a handler around ask_ai) and reaches main's handler, line 211.
AfterRaise(site, type) == IF CaughtByMain(type) THEN "except" ELSE "crashed"

InitMain ==
    /\ mainPc = "start"
    /\ InitFrame

\* Lines 194-200.
MainStart ==
    /\ mainPc = "start"
    /\ stdout' = stdout \o <<"Apple AI Server - Python Examples",
                             "Make sure the server is running: swift run">>
    /\ mainPc' = "ex1"
    /\ UNCHANGED <<answer1, answer2, pc, frame, sent, calls, server>>

\* An example reaches a call of ask_ai.
ExampleCall ==
    /\ mainPc \in SiteSet
    /\ Enter(SiteArgs(mainPc))
    /\ stdout' = stdout \o Header(mainPc)
    /\ UNCHANGED <<mainPc, answer1, answer2, sent, server>>

\* ask_ai returned: the example assigns the answer, prints and goes on.
ExampleReturn ==
    /\ mainPc \in SiteSet
    /\ pc = "done"
    /\ result.kind = "return"
    /\ answer1' = IF mainPc = "ex5a" THEN result.value ELSE answer1
    /\ answer2' = IF mainPc = "ex5b" THEN result.value ELSE answer2
    /\ stdout' = stdout \o Footer(mainPc, result.value)
    /\ mainPc' = NextSite(mainPc)
    /\ pc' = "idle"
    /\ UNCHANGED <<frame, sent, calls, server>>

\* ask_ai raised: the exception propagates out of the example.
ExampleRaise ==
    /\ mainPc \in SiteSet
    /\ pc = "done"
    /\ result.kind = "raise"
    /\ mainPc' = AfterRaise(mainPc, result.exc.type)
    /\ pc' = "idle"
    /\ UNCHANGED <<stdout, answer1, answer2, frame, sent, calls, server>>

\* Lines 172-189: example 7 posts to the wrong port itself and catches the
\* transport failure; a reply, if something listens there, is ignored.
Example7 ==
    /\ mainPc = "ex7"
    /\ sent' = Append(sent,
                  [url |-> WRONG_URL, contentType |-> "application/json",
                   json |-> JsonDumps([prompt |-> PyStr("Hello")]),
                   timeout |-> EXAMPLE7_TIMEOUT])
    /\ \/ \E e \in TransportErrors :
            stdout' = stdout \o <<"Example 7: Error Handling",
                                  "Caught expected error: " \o e.type,
                                  "This demonstrates proper error handling">>
       \/ stdout' = stdout \o <<"Example 7: Error Handling">>
    /\ mainPc' = "completed"
    /\ UNCHANGED <<answer1, answer2, pc, frame, calls, server>>

\* Line 209.
MainCompleted ==
    /\ mainPc = "completed"
    /\ stdout' = Append(stdout, "All examples completed!")
    /\ mainPc' = "end"
    /\ UNCHANGED <<answer1, answer2, pc, frame, sent, calls, server>>

Hints ==
    <<"Troubleshooting:", "1. Is the server running? (swift run)",
      "2. Is it on port 8080?", "3. Is Apple Intelligence enabled?",
      "4. Do you have the requests library? (pip install requests)">>

\* Lines 211-217.
MainExcept ==
    /\ mainPc = "except"
    /\ stdout' = stdout \o <<"Error: " \o result.exc.msg>> \o Hints
    /\ mainPc' = "end"
    /\ UNCHANGED <<answer1, answer2, pc, frame, sent, calls, server>>

NextMain ==
    \/ MainStart
    \/ ExampleCall
    \/ ExampleReturn
    \/ ExampleRaise
    \/ Example7
    \/ MainCompleted
    \/ MainExcept
    \/ AskAi

SpecMain == InitMain /\ [][NextMain]_vars

(***************************************************************************)
(* Properties of one call of ask_ai (under Spec)                           *)
(***************************************************************************)
\* The fields of the JSON object of the request that was sent.
SentBody == sent[1].json[2]

\* The key prompt (a str, as the signature declares, so never None) and
\* the keys of the optional parameters that were supplied.
SuppliedKeys ==
    {"prompt"}
      \cup (IF args.system_prompt # PyNone THEN {"systemPrompt"} ELSE {})
      \cup (IF args.temperature # PyNone THEN {"temperature"} ELSE {})
      \cup (IF args.max_tokens # PyNone THEN {"maxTokens"} ELSE {})

\* C1: the JSON request body holds exactly the key prompt and the keys of
\* the optional parameters that were supplied (not None), each with the
\* value supplied; no key of an omitted parameter appears, no value is
\* null, and a supplied falsy value (0.0, 0, "") is still sent.
C1_RequestBodyKeys ==
    Len(sent) >= 1 =>
        /\ DOMAIN SentBody = SuppliedKeys
        /\ \A k \in DOMAIN SentBody : SentBody[k] # <<"null">>
        /\ SentBody["prompt"] = <<"string", args.prompt[2]>>
        /\ args.system_prompt # PyNone =>
               SentBody["systemPrompt"] = <<"string", args.system_prompt[2]>>
        /\ args.temperature # PyNone =>
               SentBody["temperature"] = <<"number", args.temperature[2]>>
        /\ args.max_tokens # PyNone =>
               SentBody["maxTokens"] = <<"number", 10 * args.max_tokens[2]>>

\* A call with temperature 0.0, max_tokens 0 and no system prompt has sent
\* the keys prompt, temperature and maxTokens.
C1_Witness ==
    /\ Len(sent) = 1
    /\ args.system_prompt = PyNone
    /\ args.temperature = PyFloat(0)
    /\ args.max_tokens = PyInt(0)
    /\ DOMAIN SentBody = {"prompt", "temperature", "maxTokens"}
    /\ SentBody["temperature"] = <<"number", 0>>

Is2xx(status) == 200 <= status /\ status < 300

\* A reply has arrived (the transport did not fail).
Replied == response # NoResponse

IsObject(body) == body[1] = "object"

HasField(body, k) == IsObject(body) /\ k \in DOMAIN body[2]

\* The body has an error field that is neither null nor the empty text.
HasNonEmptyError(body) ==
    /\ HasField(body, "error")
    /\ body[2]["error"] \notin {<<"null">>, <<"string", "">>}

\* The Python value of a JSON text or null.
ValueOf(j) == IF j = <<"null">> THEN PyNone ELSE PyStr(j[2])

\* C2: after a success status and a JSON body with a response field and no
\* non-empty error field, ask_ai returns exactly the value of the response
\* field and raises nothing.
C2_ReturnsResponseField ==
    (/\ pc = "done"
     /\ Replied
     /\ Is2xx(response.status)
     /\ HasField(response.body, "response")
     /\ ~HasNonEmptyError(response.body))
        => result = Returned(ValueOf(response.body[2]["response"]))

\* HTTP 200 with {"response": "X", "error": ""} has returned "X".
C2_Witness ==
    /\ pc = "done"
    /\ response.status = 200
    /\ response.body = <<"object", [response |-> <<"string", "X">>,
                                    error |-> <<"string", "">>]>>
    /\ result = Returned(PyStr("X"))

\* C3: after HTTP 200 and a JSON body whose error field is a non-empty text
\* m, ask_ai fails with exactly the message m, not wrapped as a transport
\* error, and returns no response field.
C3_ApplicationErrorMessage ==
    (/\ pc = "done"
     /\ Replied
     /\ response.status = 200
     /\ HasNonEmptyError(response.body))
        => result = Raised(Exc("Exception", response.body[2]["error"][2]))

\* HTTP 200 with {"response": "X", "error": "bad prompt"} has failed with
\* the message "bad prompt".
C3_Witness ==
    /\ pc = "done"
    /\ response.status = 200
    /\ response.body = <<"object", [response |-> <<"string", "X">>,
                                    error |-> <<"string", "bad prompt">>]>>
    /\ result.kind = "raise"
    /\ result.exc.msg = "bad prompt"

\* C4 as stated: after any non-success (non-2xx) status the call fails,
\* whatever the body holds.
C4_NonSuccessStatusFails ==
    (pc = "done" /\ Replied /\ ~Is2xx(response.status))
        => result.kind = "raise"

\* C4, amended: after a 4xx or 5xx status ask_ai fails whatever the body
\* holds, with the wrapped HTTP error, and never reaches the statements
\* that parse or inspect the body.
C4_HttpErrorStatusFails ==
    (Replied /\ response.status \in 400..599) =>
        /\ pc \in {"raise_for_status", "except", "done"}
        /\ data = PyNone
        /\ pc = "done" =>
              /\ result.kind = "raise"
              /\ result.exc.type = "Exception"
              /\ result.exc.msg = "Failed to connect to AI server: " \o exc.msg
              /\ exc.type = "HTTPError"

\* HTTP 404 with {"response": "X"} has failed and nothing was parsed.
C4_Witness ==
    /\ pc = "done"
    /\ response.status = 404
    /\ response.body = <<"object", [response |-> <<"string", "X">>]>>
    /\ result.kind = "raise"
    /\ data = PyNone

\* C5: whenever the body ask_ai has parsed holds a non-empty error field,
\* ask_ai fails with that field's value as the message, whatever the status
\* of the response that got as far as being parsed.
C5_ParsedErrorFails ==
    (/\ pc = "done"
     /\ data[1] = "dict"
     /\ "error" \in DOMAIN data[2]
     /\ data[2]["error"] \notin {PyNone, PyStr("")})
        => /\ result.kind = "raise"
           /\ result.exc.type = "Exception"
           /\ result.exc.msg = data[2]["error"][2]

\* A reply with the non-success status 300 and {"error": "bad prompt"} was
\* parsed and the call has failed with "bad prompt".
C5_Witness ==
    /\ pc = "done"
    /\ response.status = 300
    /\ data = PyDict([error |-> PyStr("bad prompt")])
    /\ result = Raised(Exc("Exception", "bad prompt"))

\* The POST failed at the transport level: it was sent and no reply came.
TransportFailed == Len(sent) >= 1 /\ ~Replied

\* C6: after a transport failure of the POST ask_ai fails with a generic
\* Exception whose message is "Failed to connect to AI server: " followed
\* by the text of the cause; the transport exception never leaves ask_ai.
C6_TransportErrorWrapped ==
    TransportFailed =>
        /\ pc \in {"except", "done"}
        /\ exc \in TransportErrors
        /\ pc = "done" =>
              result = Raised(Exc("Exception",
                                  "Failed to connect to AI server: " \o exc.msg))

\* A read timeout has ended the call with the wrapped message.
C6_Witness ==
    /\ pc = "done"
    /\ TransportFailed
    /\ exc.type = "ReadTimeout"
    /\ result.exc.msg = "Failed to connect to AI server: Read timed out"

\* C7: after a success status and a body that is not JSON the parse error
\* leaves ask_ai as it is: not caught by the handler of line 62, not
\* re-raised as "Failed to connect to AI server: ...".
C7_ParseErrorPropagates ==
    (/\ pc = "done"
     /\ Replied
     /\ Is2xx(response.status)
     /\ response.body = <<"invalid">>)
        => /\ result.kind = "raise"
           /\ result.exc.type = "json.JSONDecodeError"
           /\ result.exc.msg = "Expecting value: line 1 column 1 (char 0)"

(***************************************************************************)
(* Properties of the script (under SpecMain)                               *)
(***************************************************************************)
\* The number of requests sent to the fixed endpoint so far.
PostsToServer == Cardinality({i \in 1..Len(sent) : sent[i].url = SERVER_URL})

Printed(line) == \E i \in 1..Len(stdout) : stdout[i] = line

MainFailed == mainPc = "except" \/ Printed(Hints[1])

\* C9: main runs examples 1 to 7 in that order; an example goes on only
\* after ask_ai returned; once an ask_ai call has failed the error is in
\* main's handler, the failed call is the last request of the run, "All
\* examples completed!" is not printed and the script ends normally with
\* the error message and the hints as its last lines; "All examples
\* completed!" is printed only after all eight calls returned and example 7
\* ran.
C9_FirstFailureStopsRun ==
    /\ mainPc # "crashed"
    /\ Len(sent) <= Len(Sites) + 1
    /\ \A i \in 1..Len(sent) :
          IF i <= Len(Sites)
          THEN /\ sent[i].url = SERVER_URL
               /\ sent[i].json[2]["prompt"] =
                      <<"string", SiteArgs(Sites[i]).prompt[2]>>
          ELSE sent[i].url = WRONG_URL
    /\ (mainPc \in SiteSet /\ pc = "idle") =>
          /\ result.kind # "raise"
          /\ calls = SiteIndex(mainPc) - 1
    /\ MainFailed =>
          /\ result.kind = "raise"
          /\ pc = "idle"
          /\ Len(sent) = calls
          /\ args = SiteArgs(Sites[calls])
          /\ ~Printed("All examples completed!")
    /\ (MainFailed /\ mainPc = "end") =>
          /\ Len(stdout) > Len(Hints) + 1
          /\ SubSeq(stdout, Len(stdout) - Len(Hints) + 1, Len(stdout)) = Hints
          /\ stdout[Len(stdout) - Len(Hints)] = "Error: " \o result.exc.msg
    /\ Printed("All examples completed!") =>
          /\ mainPc = "end"
          /\ calls = Len(Sites)
          /\ Len(sent) = Len(Sites) + 1
          /\ result.kind = "return"
          /\ stdout[Len(stdout)] = "All examples completed!"
          /\ \A i \in 1..Len(Sites) :
                Footer(Sites[i], PyNone) # <<>> =>
                    Printed(Footer(Sites[i], PyNone)[1])
    /\ mainPc = "end" => (MainFailed \/ Printed("All examples completed!"))

\* The first call of example 6 failed after five calls returned: the run
\* has ended with the hints and without example 6's second call.
C9_Witness ==
    /\ mainPc = "end"
    /\ calls = 7
    /\ Len(sent) = 7
    /\ Printed("Identical: YES")
    /\ Printed("Troubleshooting:")
    /\ ~Printed("Example 7: Error Handling")

\* Example 5 has made both its calls / has got both its answers.
Ex5Sent == Len(sent) >= 6

Ex5Returned == Printed("Identical: YES") \/ Printed("Identical: NO")

\* C10: the two calls of example 5 (same prompt, temperature 0.0) send
\* identical requests, and if the server's reply is a function of the
\* request body both return the same text.
C10_SameRequestSameAnswer ==
    /\ Ex5Sent => sent[5] = sent[6]
    /\ (deterministic /\ Ex5Returned) =>
          /\ answer1 = answer2
          /\ Printed("Identical: YES")

\* Against a deterministic server example 5 got "X" twice.
C10_Witness ==
    /\ deterministic
    /\ Ex5Returned
    /\ answer1 = PyStr("X")
    /\ answer2 = PyStr("X")
    /\ sent[5].json[2]["temperature"] = <<"number", 0>>

=============================================================================
